---- MODULE Spec2Model ----
(***************************************************************************)
(* Sticky-Nim: the configuration table, the losing-configuration solver    *)
(* and its per-max_take cache, generate_move (ai.py), the board, the moves *)
(* and Game.play (mechanics.py), errors_about_move and the cheat command   *)
(* (sticky_nim_console.py), as a state machine.                            *)
(*                                                                         *)
(* A Python list is a TLA+ sequence; the Python index i is the TLA+ index  *)
(* i + 1 (see At / SetAt).  A configuration is a sequence of positive      *)
(* integers, largest group first.                                          *)
(***************************************************************************)
EXTENDS Integers, Sequences, FiniteSets, TLC

\* ------------------------------------------------------------------ bounds

\* largest board_size passed to set_rules in Spec
MaxSize == 6
\* largest max_take passed to set_rules in Spec, and of the games of SpecCells
\* and SpecCheat
MaxTake == 2
\* largest number of sticks of a configuration handed to the pure functions
MaxSum == 6
\* largest max_take handed to the pure functions
MaxTakeArg == 4
\* largest board_size passed to set_rules in SpecDefault
MaxBoard == 11

\* largest board_size of a game
MaxGameSize == 5
\* largest max_take of a game
MaxGameTake == 2
\* largest number of set_rules calls before and during the game of SpecAI
MaxCalls == 1
\* Game.play: at most MaxTurns moves are followed in one game
MaxTurns == 8
\* the board functions alone: the boards have at most MaxCells cells
MaxCells == 5
\* the cheat command: boards of at most MaxCheatSize cells, after at most
\* MaxCheatCalls calls of set_rules
MaxCheatSize == 4
MaxCheatCalls == 2

\* the console's default max_take
DEFAULT_MAX_TAKE == 3

\* ------------------------------------------------------------------- state

VARIABLES
    _configs,         \* ai._configs: _configs[n][k] = list of n-stick k-group configs
    _losing_configs,  \* ai._losing_configs: the active list of losing configs
    _losing_backup,   \* ai._losing_backup: max_take -> <<board_size, losing list>>
    _settings,        \* ai._settings: [board_size, max_take]
    known_size,       \* set_rules' local known_size, as of its last call
    largest,          \* history: max_take -> largest board_size passed to set_rules (0: never)
    op,               \* the operation that produced this state
    test_index,       \* ai_test.py: how many of its test_configs were looked up
    config_from,      \* argument of the last call of a configuration function
    config_to,        \* argument of the last call of a configuration function
    max_take,         \* argument of the last call of a configuration function
    ret,              \* value returned by the last call of a function
    settings,         \* game.settings: [board_size, max_take]
    _slots,           \* game.board._slots: the cells of the board
    move,             \* the Move last returned or handed to play_move (None: no move)
    raised,           \* the exception that ended the last call ("": it returned)
    target,           \* generate_move's local target (None: the random branch)
    players,          \* game.players: a "human" or a "computer" each
    current_player,   \* Game.play's local current_player
    last_player,      \* history: who played the last move of the game (-1: nobody yet)
    found_target,     \* history: player -> its generate_move found a target in this game
    turns,            \* history: how many moves were played in the current game
    calls,            \* history: how many times set_rules was called
    board_size_arg,   \* ai_test.to_board's argument board_size
    args              \* the arguments of the last call of a board function (None: no call)

vars == <<_configs, _losing_configs, _losing_backup, _settings, known_size,
          largest, op, test_index, config_from, config_to, max_take, ret,
          settings, _slots, move, raised, target, players, current_player,
          last_player, found_target, turns, calls, board_size_arg, args>>

solver_vars == <<_configs, _losing_configs, _losing_backup, _settings,
                 known_size, largest>>
call_vars == <<config_from, config_to, max_take, ret>>
board_vars == <<settings, _slots, move, raised, target>>
play_vars == <<players, current_player, last_player, found_target, turns>>
game_vars == <<board_vars, play_vars, calls, board_size_arg, args>>

\* ------------------------------------------------------- Python list helpers

\* l[i]
At(l, i) == l[i + 1]

\* l[i] = v
SetAt(l, i, v) == [l EXCEPT ![i + 1] = v]

\* sum(l)
RECURSIVE Sum(_)
Sum(l) == IF l = <<>> THEN 0 ELSE Head(l) + Sum(Tail(l))

\* x in l
Contains(l, x) == \E i \in DOMAIN l : l[i] = x

\* l.remove(x): drops the first occurrence of x (x is in l)
RECURSIVE Remove(_, _)
Remove(l, x) ==
    IF l = <<>> THEN <<>>
    ELSE IF Head(l) = x THEN Tail(l)
    ELSE <<Head(l)>> \o Remove(Tail(l), x)

\* v, once x has been evaluated: the loops below hand their accumulator to
\* the next iteration as a value, as the Python loops do, not as a pending
\* computation (this changes no value)
Strict(x, v) == IF x = x THEN v ELSE v

\* [1] * n
Ones(n) == [i \in 1..n |-> 1]

\* abs(x)
Abs(x) == IF x < 0 THEN -x ELSE x

\* -------------------------------------------- configuration functions (ai.py)

\* the loop of lines 190-192: every group of config_to found in c_from is
\* removed from it, once
RECURSIVE remove_common(_, _)
remove_common(c_from, c_to) ==
    IF c_to = <<>> THEN c_from
    ELSE IF Contains(c_from, Head(c_to))
         THEN remove_common(Remove(c_from, Head(c_to)), Tail(c_to))
         ELSE remove_common(c_from, Tail(c_to))

\* _move_exists without its first test (lines 178-179) on the group counts
_move_exists_any_group_count(c_from, c_to, mt) ==
    LET take == Sum(c_from) - Sum(c_to)
    IN  IF take < 1 \/ take > mt THEN FALSE
        ELSE Len(remove_common(c_from, c_to)) = 1

\* _move_exists with the comparison to max_take off by one (line 183)
_move_exists_take_below_max(c_from, c_to, mt) ==
    IF Abs(Len(c_from) - Len(c_to)) > 1 THEN FALSE
    ELSE LET take == Sum(c_from) - Sum(c_to)
         IN  IF take < 1 \/ take >= mt THEN FALSE
             ELSE Len(remove_common(c_from, c_to)) = 1

\* _move_exists with the test of line 183 accepting a move that takes no stick
_move_exists_no_stick_taken(c_from, c_to, mt) ==
    IF Abs(Len(c_from) - Len(c_to)) > 1 THEN FALSE
    ELSE LET take == Sum(c_from) - Sum(c_to)
         IN  IF take < 0 \/ take > mt THEN FALSE
             ELSE Len(remove_common(c_from, c_to)) = 1

\* _move_exists(config_from, config_to, max_take)
_move_exists(c_from, c_to, mt) ==
    IF Abs(Len(c_from) - Len(c_to)) > 1 THEN FALSE
    ELSE LET take == Sum(c_from) - Sum(c_to)
         IN  IF take < 1 \/ take > mt THEN FALSE
             ELSE Len(remove_common(c_from, c_to)) = 1

\* remove_common_to looking each group up in the whole of config_from: the
\* groups it finds are not removed from c_from
RECURSIVE remove_common_to_unpaired(_, _, _)
remove_common_to_unpaired(c_from, c_to, rest) ==
    IF rest = <<>> THEN c_to
    ELSE IF Contains(c_from, Head(rest))
         THEN remove_common_to_unpaired(c_from, Remove(c_to, Head(rest)),
                                        Tail(rest))
         ELSE remove_common_to_unpaired(c_from, c_to, Tail(rest))

\* the loop of lines 210-213 seen from c_to: every group of config_to that is
\* found in what is left of c_from is removed from c_to; the result is c_to
RECURSIVE remove_common_to(_, _, _)
remove_common_to(c_from, c_to, rest) ==
    IF rest = <<>> THEN c_to
    ELSE IF Contains(c_from, Head(rest))
         THEN remove_common_to(Remove(c_from, Head(rest)),
                               Remove(c_to, Head(rest)), Tail(rest))
         ELSE remove_common_to(c_from, c_to, Tail(rest))

\* the value None
None == <<>>

\* the value None where a number is expected (a size left unspecified)
Unspecified == -1

\* _describe_move_between(config_from, config_to); choice is the index drawn
\* by random.choice([0, 1]) at line 225
_describe_move_between(c_from, c_to, choice) ==
    LET take == Sum(c_from) - Sum(c_to)
    IN  IF ~_move_exists(c_from, c_to, take) THEN None
        ELSE LET r_from == remove_common(c_from, c_to)
                 r_to == remove_common_to(c_from, c_to, c_to)
                 size_of_group_to_take_from == At(r_from, 0)
                 offset == IF Len(r_to) <= 1 THEN 0 ELSE At(r_to, choice)
             IN  <<take, size_of_group_to_take_from, offset>>

\* skip_set_b with the comparison off by one: set B is also skipped when
\* k = n - k
skip_set_b_off_by_one(n, k) == k >= n - k

\* line 259: there is no (n-k)-stick k-group config to add a stick to
skip_set_b(n, k) == k > n - k

\* lines 250-265: the body of the loop over k, for k, k + 1, ..., n
RECURSIVE build_configs_k(_, _, _)
build_configs_k(table, n, k) ==
    IF k > n THEN table
    ELSE LET t1 == SetAt(table, n, Append(At(table, n), <<>>))
             src_a == At(At(t1, n - 1), k - 1)
             set_a == [i \in 1..Len(src_a) |-> Append(src_a[i], 1)]
             t2 == SetAt(t1, n, SetAt(At(t1, n), k, At(At(t1, n), k) \o set_a))
             src_b == At(At(t2, n - k), k)
             set_b == [i \in 1..Len(src_b) |->
                          [j \in 1..Len(src_b[i]) |-> src_b[i][j] + 1]]
             t3 == IF skip_set_b(n, k) THEN t2
                   ELSE SetAt(t2, n, SetAt(At(t2, n), k, At(At(t2, n), k) \o set_b))
         IN  Strict(t3, build_configs_k(t3, n, k + 1))

\* lines 235-265: the body of the loop over n, for n, n + 1, ..., up_to
RECURSIVE build_configs_n(_, _, _)
build_configs_n(table, n, up_to) ==
    IF n > up_to THEN table
    ELSE LET t1 == Append(table, <<>>)
             t2 == SetAt(t1, n, Append(At(t1, n), <<>>))
             t3 == SetAt(t2, n, Append(At(t2, n), << <<n>> >>))
             t4 == build_configs_k(t3, n, 2)
         IN  Strict(t4, build_configs_n(t4, n + 1, up_to))

\* _build_configs(up_to, start_from), from the table `table`
_build_configs(table, up_to, start_from) ==
    build_configs_n(table, start_from, up_to)

\* reaches_losing looking at the last losing config of the list only
reaches_losing_latest(config, losing, mt) ==
    losing # <<>> /\ _move_exists(config, losing[Len(losing)], mt)

\* lines 291-293: some known losing config can be reached from config
reaches_losing(config, losing, mt) ==
    \E i \in DOMAIN losing : _move_exists(config, losing[i], mt)

\* lines 290-295: the configs of the list `configs`, from index i on
RECURSIVE build_losing_list(_, _, _, _)
build_losing_list(configs, i, losing, mt) ==
    IF i > Len(configs) THEN losing
    ELSE LET next == IF reaches_losing(configs[i], losing, mt) THEN losing
                     ELSE Append(losing, configs[i])
         IN  Strict(next, build_losing_list(configs, i + 1, next, mt))

\* lines 289-295: the loop over k, for k, k + 1, ..., n
RECURSIVE build_losing_k(_, _, _, _, _)
build_losing_k(table, n, k, losing, mt) ==
    IF k > n THEN losing
    ELSE LET next == build_losing_list(At(At(table, n), k), 1, losing, mt)
         IN  Strict(next, build_losing_k(table, n, k + 1, next, mt))

\* line 286: the stick counts for which only [1] * n is taken as losing
odd_shortcut(n) == n % 2 = 1

\* lines 283-295: the loop over n, for n, n + 1, ..., up_to
RECURSIVE build_losing_n(_, _, _, _, _)
build_losing_n(table, n, up_to, losing, mt) ==
    IF n > up_to THEN losing
    ELSE LET next == IF odd_shortcut(n) THEN Append(losing, Ones(n))
                     ELSE build_losing_k(table, n, 1, losing, mt)
         IN  Strict(next, build_losing_n(table, n + 1, up_to, next, mt))

\* _build_losing_configs(up_to, max_take, start_from), from the list `losing`
_build_losing_configs(table, losing, up_to, mt, start_from) ==
    build_losing_n(table, start_from, up_to, losing, mt)

\* _reachable_losing_configs(config_from)
_reachable_losing_configs(c_from) ==
    SelectSeq(_losing_configs,
              LAMBDA c : _move_exists(c_from, c, _settings.max_take))

\* loading_needed answering True whatever the backup holds
loading_needed_always(backup, size, mt) == TRUE

\* loading_needed with the comparison off by one: a board of the cached size
\* is taken to need loading
loading_needed_same_size(backup, size, mt) ==
    mt \notin DOMAIN backup \/ size >= backup[mt][1]

\* loading_needed(settings), read on the backup `backup`
loading_needed_in(backup, size, mt) ==
    mt \notin DOMAIN backup \/ size > backup[mt][1]

\* loading_needed(settings)
loading_needed(size, mt) == loading_needed_in(_losing_backup, size, mt)

\* ------------------------------------------------------------ the game's rule

\* l without its element of index i
DropAt(l, i) == SubSeq(l, 1, i - 1) \o SubSeq(l, i + 1, Len(l))

\* x put at its place in the list `sorted`, largest first
RECURSIVE Insert(_, _)
Insert(sorted, x) ==
    IF sorted = <<>> THEN <<x>>
    ELSE IF x >= Head(sorted) THEN <<x>> \o sorted
    ELSE <<Head(sorted)>> \o Insert(Tail(sorted), x)

\* sorted(l, reverse=True)
RECURSIVE SortDesc(_)
SortDesc(l) == IF l = <<>> THEN <<>> ELSE Insert(SortDesc(Tail(l)), Head(l))

\* the groups left of a group of `size` sticks once `take` adjacent sticks
\* are removed from it, `offset` sticks away from one of its edges
Pieces(size, take, offset) ==
    (IF offset > 0 THEN <<offset>> ELSE <<>>)
    \o (IF size - take - offset > 0 THEN <<size - take - offset>> ELSE <<>>)

\* the configuration after that move is played in the group of index i of c
AfterMove(c, i, take, offset) ==
    SortDesc(DropAt(c, i) \o Pieces(c[i], take, offset))

\* the configurations one legal move away from c when at most mt sticks
\* may be taken
LegalResults(c, mt) ==
    UNION { UNION { { AfterMove(c, i, take, offset) :
                      offset \in 0..(c[i] - take) } :
                    take \in 1..(IF mt < c[i] THEN mt ELSE c[i]) } :
            i \in DOMAIN c }

\* ------------------------------------------------------ main functions (ai.py)

\* fetch_backup taking the entry of any max_take that was backed up
fetch_backup_any_take(mt) ==
    IF DOMAIN _losing_backup # {}
    THEN _losing_backup[CHOOSE k \in DOMAIN _losing_backup : TRUE]
    ELSE <<0, <<>>>>

\* fetch_backup finding nothing: every call starts from an empty list
fetch_backup_nothing(mt) == <<0, <<>>>>

\* lines 425-426: the backed up (board_size, losing list) of max_take, if any
fetch_backup(mt) ==
    IF mt \in DOMAIN _losing_backup THEN _losing_backup[mt] ELSE <<0, <<>>>>

\* configs_start_from left at the default of _build_configs (start_from=1)
configs_start_from_default(table) == 1

\* line 430: the table is extended from its first missing stick count on
configs_start_from(table) == Len(table)

\* _losing_backup[mt] = value
backup_put(backup, mt, value) ==
    [k \in DOMAIN backup \cup {mt} |-> IF k = mt THEN value ELSE backup[k]]

\* The list fetched from the backup and the active list are one list object:
\* what _build_losing_configs appends to the one is appended to the other.
backup_alias(backup, mt, losing) ==
    IF mt \in DOMAIN backup
    THEN [backup EXCEPT ![mt] = <<backup[mt][1], losing>>]
    ELSE backup

\* lines 433-434: the backup after set_rules has built `losing`
backup_after(size, mt, losing) ==
    LET backup == backup_alias(_losing_backup, mt, losing)
    IN  IF loading_needed_in(backup, size, mt)
        THEN backup_put(backup, mt, <<size, losing>>)
        ELSE backup

\* set_rules(settings)
set_rules(size, mt) ==
    LET fetched == fetch_backup(mt)
        table == _build_configs(_configs, size, configs_start_from(_configs))
        losing == _build_losing_configs(table, fetched[2], size, mt,
                                        fetched[1] + 1)
    IN  /\ known_size' = fetched[1]
        /\ _settings' = [board_size |-> size, max_take |-> mt]
        /\ _configs' = table
        /\ _losing_configs' = losing
        /\ _losing_backup' = backup_after(size, mt, losing)
        /\ largest' = [largest EXCEPT ![mt] = IF size > @ THEN size ELSE @]

\* the losing list of a process that has just loaded the module (an empty
\* table, no backup) and calls set_rules(size, mt) once
fresh_losing_configs(size, mt) ==
    _build_losing_configs(_build_configs(<< <<>> >>, size, 1), <<>>, size, mt, 1)

\* ------------------------------------------------------------ specifications

\* the module as loaded: lines 71, 156-157, 160, 166
SolverInit ==
    /\ _configs = << <<>> >>
    /\ _losing_configs = <<>>
    /\ _losing_backup = <<>>
    /\ _settings = [board_size |-> 0, max_take |-> 0]
    /\ known_size = 0

\* no game was created yet
NoGame ==
    /\ settings = [board_size |-> 0, max_take |-> 0]
    /\ _slots = <<>>
    /\ move = None
    /\ raised = ""
    /\ target = None
    /\ players = <<>>
    /\ current_player = 0
    /\ last_player = -1
    /\ found_target = <<FALSE, FALSE>>
    /\ turns = 0
    /\ calls = 0
    /\ board_size_arg = Unspecified
    /\ args = None

Init ==
    /\ SolverInit
    /\ NoGame
    /\ largest = [k \in 1..MaxTake |-> 0]
    /\ op = "init"
    /\ test_index = 0
    /\ config_from = <<>>
    /\ config_to = <<>>
    /\ max_take = 0
    /\ ret = None

\* any sequence of set_rules calls
SetRules ==
    /\ \E size \in 1..MaxSize, mt \in 1..MaxTake : set_rules(size, mt)
    /\ op' = "set_rules"
    /\ UNCHANGED <<call_vars, test_index, game_vars>>

Next == SetRules

Spec == Init /\ [][Next]_vars

\* ai_test.py, lines 169-180: the configurations it looks up
test_configs(board_size) ==
    << <<board_size>>, <<3, 2, 1>>, <<6, 5, 4, 4, 2, 1>>, <<6, 5, 2, 1>>,
       <<6, 4, 2>>, <<5, 4, 1>>, <<21, 1>>, <<21, 5>> >>
    \o [n \in 1..9 |-> <<18 - n, n>>]
    \o [n \in 1..10 |-> SortDesc(<<n, n>> \o <<5, 1>>)]

\* ai_test.py, lines 182-191: one turn of the loop over test_configs; a
\* configuration of more sticks than the board is reported unknown
ReachableQuery ==
    /\ op \in {"set_rules", "_reachable_losing_configs"}
    /\ test_index < Len(test_configs(_settings.board_size))
    /\ LET config == At(test_configs(_settings.board_size), test_index)
       IN  /\ config_from' = config
           /\ ret' = IF Sum(config) > _settings.board_size THEN <<"unknown">>
                     ELSE _reachable_losing_configs(config)
    /\ test_index' = test_index + 1
    /\ op' = "_reachable_losing_configs"
    /\ UNCHANGED <<solver_vars, config_to, max_take, game_vars>>

\* set_rules calls with the default max_take, on boards up to MaxBoard; as in
\* ai_test.py (line 141), the rules are set before the configurations are
\* looked up
SetRulesDefault ==
    /\ test_index = 0
    /\ \E size \in 1..MaxBoard : set_rules(size, DEFAULT_MAX_TAKE)
    /\ op' = "set_rules"
    /\ UNCHANGED <<call_vars, test_index, game_vars>>

InitDefault ==
    /\ SolverInit
    /\ NoGame
    /\ largest = [k \in 1..DEFAULT_MAX_TAKE |-> 0]
    /\ op = "init"
    /\ test_index = 0
    /\ config_from = <<>>
    /\ config_to = <<>>
    /\ max_take = 0
    /\ ret = None

NextDefault == SetRulesDefault \/ ReachableQuery

SpecDefault == InitDefault /\ [][NextDefault]_vars

\* --------------------------------------- the configuration functions alone

\* a configuration: positive group sizes, largest first
IsConfig(c) ==
    /\ \A i \in DOMAIN c : c[i] >= 1
    /\ \A i \in DOMAIN c : i < Len(c) => c[i] >= c[i + 1]

\* the configurations of n sticks in k groups, none larger than max_group
RECURSIVE Parts(_, _, _)
Parts(n, k, max_group) ==
    IF k = 0 THEN (IF n = 0 THEN {<<>>} ELSE {})
    ELSE UNION { { <<first>> \o rest : rest \in Parts(n - first, k - 1, first) } :
                 first \in 1..(IF max_group < n THEN max_group ELSE n) }

\* the configurations of n sticks
ConfigsOf(n) == UNION { Parts(n, k, n) : k \in 0..n }

\* the configurations of at most n sticks, the empty one included
ConfigsUpTo(n) == UNION { ConfigsOf(m) : m \in 0..n }

InitMoves ==
    /\ SolverInit
    /\ NoGame
    /\ largest = [k \in 1..MaxTake |-> 0]
    /\ op = "input"
    /\ test_index = 0
    /\ config_from \in ConfigsUpTo(MaxSum)
    /\ config_to \in ConfigsUpTo(MaxSum)
    /\ max_take \in 1..MaxTakeArg
    /\ ret = None

CallMoveExists ==
    /\ op = "input"
    /\ ret' = <<_move_exists(config_from, config_to, max_take)>>
    /\ op' = "_move_exists"
    /\ UNCHANGED <<solver_vars, test_index, config_from, config_to, max_take,
                   game_vars>>

CallDescribeMoveBetween ==
    /\ op = "input"
    /\ \E choice \in {0, 1} :
          ret' = _describe_move_between(config_from, config_to, choice)
    /\ op' = "_describe_move_between"
    /\ UNCHANGED <<solver_vars, test_index, config_from, config_to, max_take,
                   game_vars>>

NextMoves == CallMoveExists \/ CallDescribeMoveBetween

SpecMoves == InitMoves /\ [][NextMoves]_vars

\* ------------------------------------------------------------------- claims

\* C4: once _build_configs has filled the table through N, for 1 <= n <= N
\* and 1 <= k <= n, _configs[n][k] holds exactly the partitions of n into k
\* positive parts (each a non-increasing list of k positive integers of sum n,
\* each present, none twice), _configs[n][0] is empty, and the entries of
\* _configs[n] are as many as the partitions of n.
C4_TableHoldsPartitions ==
    \A n \in 1..(Len(_configs) - 1) :
        /\ Len(At(_configs, n)) = n + 1
        /\ At(At(_configs, n), 0) = <<>>
        /\ \A k \in 1..n :
              LET row == At(At(_configs, n), k)
              IN  /\ \A i \in DOMAIN row :
                        IsConfig(row[i]) /\ Len(row[i]) = k /\ Sum(row[i]) = n
                  /\ \A i, j \in DOMAIN row : i # j => row[i] # row[j]
                  /\ \A c \in Parts(n, k, n) : Contains(row, c)
        /\ Sum([k \in 1..n |-> Len(At(At(_configs, n), k))])
              = Cardinality(ConfigsOf(n))

\* the table is filled through 6 sticks, set A and set B both used
C4_Witness ==
    /\ Len(_configs) >= 7
    /\ Contains(At(At(_configs, 6), 3), <<4, 1, 1>>)
    /\ Contains(At(At(_configs, 6), 3), <<2, 2, 2>>)

C6_MoveExistsIffOneMove ==
    op = "_move_exists" =>
        /\ ret[1] <=> config_to \in LegalResults(config_from, max_take)
        /\ ret[1] => /\ Sum(config_from) > Sum(config_to)
                     /\ Sum(config_from) - Sum(config_to) \in 1..max_take

\* _move_exists has answered True for a take in the middle of a group, and
\* the configuration has another group
C6_Witness ==
    /\ op = "_move_exists"
    /\ ret = <<TRUE>>
    /\ config_from = <<4, 1>>
    /\ config_to = <<1, 1, 1>>
    /\ max_take = 2

\* C7: _describe_move_between(C, D) returns None exactly when C and D are not
\* one move apart; otherwise it returns (take, g, offset) with
\* take = sum(C) - sum(D), g the size of a group of C, take + offset <= g, and
\* removing take adjacent sticks at distance offset from an edge of any group
\* of g sticks of C gives D, whichever index the random choice draws.
C7_DescribeMoveBetween ==
    op = "_describe_move_between" =>
        /\ ret = None
              <=> config_to \notin LegalResults(config_from, Sum(config_from))
        /\ ret # None =>
              /\ ret[1] = Sum(config_from) - Sum(config_to)
              /\ Contains(config_from, ret[2])
              /\ ret[1] + ret[3] <= ret[2]
              /\ \A i \in DOMAIN config_from :
                    config_from[i] = ret[2]
                       => AfterMove(config_from, i, ret[1], ret[3]) = config_to

\* a take in the middle of a group that leaves two different groups, the
\* random choice having picked the smaller one as the offset
C7_Witness ==
    /\ op = "_describe_move_between"
    /\ config_from = <<5, 1>>
    /\ config_to = <<2, 1, 1>>
    /\ ret = <<2, 5, 1>>

\* C1: after set_rules(N, K), a configuration C with 1 <= sum(C) <= N is in
\* the losing set if and only if no configuration of the losing set can be
\* reached from C by one legal move (1 to K adjacent sticks removed from one
\* group).
C1_LosingSetExact ==
    op = "set_rules" =>
        \A c \in ConfigsUpTo(_settings.board_size) \ {<<>>} :
            Contains(_losing_configs, c)
               <=> ~ \E l \in LegalResults(c, _settings.max_take) :
                        Contains(_losing_configs, l)

\* C2: for every odd stick count n <= N, the only n-stick configuration that
\* the exhaustive check run for even n would take as losing (no known losing
\* configuration is one move away from it) is [1] * n, so that the shortcut
\* appends what the exhaustive check would.
C2_OddShortcutIsExhaustive ==
    op = "set_rules" =>
        \A n \in 1.._settings.board_size :
            n % 2 = 1 =>
                \A c \in ConfigsOf(n) :
                    ~reaches_losing(c, _losing_configs, _settings.max_take)
                       => c = Ones(n)

\* C3: with max_take = 3 and board_size >= 10, after set_rules, [1],
\* [1, 1, 1], [2, 2] and [5, 5] are in the losing set, and [2], [3] and [4]
\* are not and have a losing configuration one move away
\* (_reachable_losing_configs is not empty for them).
C3_KnownLosingConfigs ==
    (_settings.max_take = 3 /\ _settings.board_size >= 10) =>
        /\ \A c \in {<<1>>, <<1, 1, 1>>, <<2, 2>>, <<5, 5>>} :
              Contains(_losing_configs, c)
        /\ \A c \in {<<2>>, <<3>>, <<4>>} :
              /\ ~Contains(_losing_configs, c)
              /\ _reachable_losing_configs(c) # <<>>

\* set_rules was called for a board of 10 sticks and max_take 3, and the
\* lookup of [5, 1, 1, 1] found the losing configuration it can reach
C3_Witness ==
    /\ op = "_reachable_losing_configs"
    /\ _settings = [board_size |-> 10, max_take |-> 3]
    /\ config_from = <<5, 1, 1, 1>>
    /\ ret = << <<1, 1, 1, 1, 1>> >>
    /\ Contains(_losing_configs, <<5, 5>>)

\* C8: for each max_take K, the cache entry _losing_backup[K] only grows: a
\* set_rules call (with K or another max_take) never removes the entry, never
\* lowers its board size, and only appends configurations to its list, each
\* of more sticks than the board size recorded before, so that the cached
\* configurations of at most that many sticks are the same as before.
C8_BackupOnlyGrows ==
    [][\A k \in DOMAIN _losing_backup :
          /\ k \in DOMAIN _losing_backup'
          /\ _losing_backup'[k][1] >= _losing_backup[k][1]
          /\ Len(_losing_backup'[k][2]) >= Len(_losing_backup[k][2])
          /\ SubSeq(_losing_backup'[k][2], 1, Len(_losing_backup[k][2]))
                = _losing_backup[k][2]
          /\ SelectSeq(_losing_backup'[k][2],
                       LAMBDA c : Sum(c) <= _losing_backup[k][1])
                = _losing_backup[k][2]]_vars

\* set_rules(6, 1) has extended the list cached for max_take 1 from a board
\* of 3 sticks, another max_take being cached too
C8_Witness ==
    /\ op = "set_rules"
    /\ _settings = [board_size |-> 6, max_take |-> 1]
    /\ known_size = 3
    /\ 2 \in DOMAIN _losing_backup
    /\ _losing_backup[1][1] = 6

\* set_rules(size, mt) would run the loop of _build_losing_configs (line 283)
\* for at least one stick count: range(known_size + 1, size + 1) is not empty
would_build(size, mt) == fetch_backup(mt)[1] + 1 <= size

\* C9: in every state reached by set_rules calls, loading_needed(N, K) is
\* true if and only if set_rules(N, K) would have stick counts to compute the
\* losing configurations of, that is if and only if K was never passed to
\* set_rules or N is greater than the largest board size passed with that K;
\* it is false for the settings set_rules was just called with.
C9_LoadingNeededIffNewWork ==
    /\ \A size \in 1..MaxSize, mt \in 1..MaxTake :
          /\ loading_needed(size, mt)
                <=> (largest[mt] = 0 \/ size > largest[mt])
          /\ loading_needed(size, mt) <=> would_build(size, mt)
    /\ op = "set_rules"
          => ~loading_needed(_settings.board_size, _settings.max_take)

\* max_take 1 was passed with boards up to 4 sticks and max_take 2 never:
\* loading_needed is False for (4, 1) and True for (5, 1) and (1, 2)
C9_Witness ==
    /\ op = "set_rules"
    /\ largest[1] = 4
    /\ largest[2] = 0
    /\ ~loading_needed(4, 1)
    /\ loading_needed(5, 1)
    /\ loading_needed(1, 2)

\* C10: a set_rules(N, K) call made when loading_needed(N, K) is false
\* computes nothing: the configuration table and every entry of
\* _losing_backup, the list cached for K included, are unchanged, and the
\* active losing list becomes the list cached for K.
C10_NoLoadingNoComputation ==
    [][(op' = "set_rules"
          /\ ~loading_needed(_settings'.board_size, _settings'.max_take))
          => /\ _configs' = _configs
             /\ _losing_backup' = _losing_backup
             /\ _losing_configs' = _losing_backup[_settings'.max_take][2]]_vars

\* set_rules(3, 2) was called with max_take 2 cached for a board of 5 sticks,
\* right after a call with another max_take
C10_Witness ==
    /\ op = "set_rules"
    /\ _settings = [board_size |-> 3, max_take |-> 2]
    /\ known_size = 5
    /\ 1 \in DOMAIN _losing_backup
    /\ _losing_configs = _losing_backup[2][2]
    /\ _losing_configs # _losing_backup[1][2]

\* ------------------------------------------ boards and moves (mechanics.py)

\* Board.__init__: the internal values of a stick and of a gap
a_stick == 1
a_gap == 0

\* Board.stick_char and Board.gap_char
stick_char == "|"
gap_char == "-"

\* Board(size): a board filled with sticks
Board(size) == [i \in 1..size |-> a_stick]

\* Board.reset()
reset(slots) == [i \in DOMAIN slots |-> a_stick]

\* Board.is_empty()
is_empty(slots) == \A i \in DOMAIN slots : slots[i] # a_stick

\* Board.__str__: one character per cell
Board_str(slots) ==
    [i \in DOMAIN slots |-> IF slots[i] = a_stick THEN stick_char ELSE gap_char]

\* Move(index_1, index_2): the pair <<left, right>>
Move(index_1, index_2) ==
    <<IF index_1 < index_2 THEN index_1 ELSE index_2,
      IF index_1 < index_2 THEN index_2 ELSE index_1>>

\* the loop of _process over extended_board from the Python index i on:
\* the list of (group_start, group_size), in board order
RECURSIVE scan_groups(_, _, _, _, _, _)
scan_groups(extended_board, stick, i, group_start, group_size, groups) ==
    IF i >= Len(extended_board) THEN groups
    ELSE IF At(extended_board, i) = stick
         THEN scan_groups(extended_board, stick, i + 1,
                          IF group_size = 0 THEN i ELSE group_start,
                          group_size + 1, groups)
         ELSE IF group_size > 0
              THEN scan_groups(extended_board, stick, i + 1, group_start, 0,
                               Append(groups, <<group_start, group_size>>))
              ELSE scan_groups(extended_board, stick, i + 1, group_start, 0,
                               groups)

\* config_of without the sort
config_of_unsorted(groups) == [i \in DOMAIN groups |-> groups[i][2]]

\* the group sizes of a list of groups, sorted: config.sort(reverse=True)
config_of(groups) == SortDesc([i \in DOMAIN groups |-> groups[i][2]])

\* to_groups without the extra slot at the end of the board
to_groups_not_extended(slots) ==
    scan_groups(Board_str(slots), stick_char, 0, 0, 0, <<>>)

\* Board.to_groups(): the board is printed, a gap character is added and the
\* string is read back as a board of characters
to_groups(slots) ==
    scan_groups(Board_str(slots) \o <<gap_char>>, stick_char, 0, 0, 0, <<>>)

\* Board.to_config()
to_config(slots) == config_of(to_groups(slots))

\* play_move_from leaving the loop at the first gap it meets
RECURSIVE play_move_from_stops_at_gap(_, _, _, _)
play_move_from_stops_at_gap(slots, i, right, move_contained_gap) ==
    IF i >= right THEN <<slots, ~move_contained_gap>>
    ELSE IF At(slots, i) = a_gap THEN <<slots, FALSE>>
    ELSE play_move_from_stops_at_gap(SetAt(slots, i, a_gap), i + 1, right,
                                     move_contained_gap)

\* Board.play_move: the loop of lines 215-218 from index i on; the result is
\* the pair <<cells afterwards, returned value>>
RECURSIVE play_move_from(_, _, _, _)
play_move_from(slots, i, right, move_contained_gap) ==
    IF i >= right THEN <<slots, ~move_contained_gap>>
    ELSE play_move_from(SetAt(slots, i, a_gap), i + 1, right,
                        move_contained_gap \/ At(slots, i) = a_gap)

\* Board.play_move(move)
play_move(slots, m) == play_move_from(slots, m[1], m[2], FALSE)

\* Move.is_out_of_bounds_on(board)
is_out_of_bounds_on(m, slots) == m[1] < 0 \/ m[2] > Len(slots)

\* Move.contains_gap_on(board): the slice is cut at the ends of the board
contains_gap_on(m, slots) ==
    \E i \in m[1]..(m[2] - 1) : i >= 0 /\ i < Len(slots) /\ At(slots, i) = a_gap

\* Move.strip_on, lines 304-305: the first index from new_left on that does
\* not hold a gap
RECURSIVE strip_left(_, _)
strip_left(slots, new_left) ==
    IF At(slots, new_left) = a_gap THEN strip_left(slots, new_left + 1)
    ELSE new_left

\* strip_right stopping one cell early: the last gap is kept in the move
RECURSIVE strip_right_keeps_last_gap(_, _)
strip_right_keeps_last_gap(slots, new_right) ==
    IF new_right - 2 >= 0 /\ At(slots, new_right - 2) = a_gap
    THEN strip_right_keeps_last_gap(slots, new_right - 1)
    ELSE new_right

\* Move.strip_on, lines 307-308: the last new_right, from new_right down, with
\* no gap before it
RECURSIVE strip_right(_, _)
strip_right(slots, new_right) ==
    IF At(slots, new_right - 1) = a_gap THEN strip_right(slots, new_right - 1)
    ELSE new_right

\* Move.strip_on(board), the move lying within the board
strip_on(m, slots) ==
    IF \A i \in m[1]..(m[2] - 1) : At(slots, i) # a_stick THEN None
    ELSE Move(strip_left(slots, m[1]), strip_right(slots, m[2]))

\* Move.takes_too_many_for(max_take)
takes_too_many_for(m, mt) == m[2] - m[1] > mt

\* Move.is_legal_in(game)
is_legal_in(m, slots, mt) ==
    /\ ~is_out_of_bounds_on(m, slots)
    /\ ~contains_gap_on(m, slots)
    /\ ~takes_too_many_for(m, mt)

\* ------------------------------------------------- board functions (ai.py)

\* process_leaves had _process appended the gap to the board's own list
process_leaves_extended(slots) == slots \o <<a_gap>>

\* line 86: board._slots + [board.a_gap] is a new list; the cells of the
\* board are what they were when _process returns
process_leaves(slots) == slots

\* ai._to_groups(board): the cells and one more gap are scanned
_to_groups(slots) == scan_groups(slots \o <<a_gap>>, a_stick, 0, 0, 0, <<>>)

\* ai._to_config(board)
_to_config(slots) == config_of(_to_groups(slots))

\* _build_move starting at the edge of the group, whatever the offset
_build_move_at_edge(slots, take, group_size, offset) ==
    IF take + offset > group_size THEN None
    ELSE LET fitting == SelectSeq(_to_groups(slots),
                                  LAMBDA g : g[2] = group_size)
         IN  IF fitting = <<>> THEN None
             ELSE Move(fitting[1][1], fitting[1][1] + take)

\* _build_move taking the last group of group_size sticks, not the first
_build_move_last_group(slots, take, group_size, offset) ==
    IF take + offset > group_size THEN None
    ELSE LET fitting == SelectSeq(_to_groups(slots), LAMBDA g : g[2] = group_size)
         IN  IF fitting = <<>> THEN None
             ELSE Move(fitting[Len(fitting)][1] + offset,
                       fitting[Len(fitting)][1] + offset + take)

\* ai._build_move(board, take, group_size, offset): the move in the first
\* group of that size, None if there is none
_build_move(slots, take, group_size, offset) ==
    IF take + offset > group_size THEN None
    ELSE LET fitting == SelectSeq(_to_groups(slots),
                                  LAMBDA g : g[2] = group_size)
         IN  IF fitting = <<>> THEN None
             ELSE Move(fitting[1][1] + offset, fitting[1][1] + offset + take)

\* ------------------------------------------------------ generate_move (ai.py)

\* what a call comes to: the Move returned (with the target it aimed at), or
\* the exception raised
Returned(m, t) == [move |-> m, raised |-> "", target |-> t]
Raised(exception) == [move |-> None, raised |-> exception, target |-> None]

\* inconsistent_settings looking at the board size only
inconsistent_settings_size_only(game_settings, ai_settings) ==
    game_settings.board_size # ai_settings.board_size

\* lines 452-453: the test on the settings of the game
inconsistent_settings(game_settings, ai_settings) ==
    \/ game_settings.board_size # ai_settings.board_size
    \/ game_settings.max_take # ai_settings.max_take

\* lines 462-464: the winning branch, for the target drawn at line 462 and the
\* index drawn in _describe_move_between; unpacking None is a TypeError
winning_outcome(slots, config, t, choice) ==
    LET described == _describe_move_between(config, t, choice)
    IN  IF described = None THEN Raised("TypeError")
        ELSE Returned(_build_move(slots, described[1], described[2],
                                  described[3]), t)

\* line 472: the largest number of sticks the random branch takes in a group
random_take_max(mt, group) == IF mt < group THEN mt ELSE group

\* random_offset_max forgetting the sticks taken
random_offset_max_whole_group(group, take) == group

\* line 473: the largest offset the random branch draws
random_offset_max(group, take) == group - take

\* lines 471-473: what the random branch can draw, as <<group, take, offset>>
random_draws(config, mt) ==
    { d \in (DOMAIN config) \X (1..mt) \X (0..Sum(config)) :
          /\ d[2] <= random_take_max(mt, config[d[1]])
          /\ d[3] <= random_offset_max(config[d[1]], d[2]) }

\* generate_move(game): every outcome the random choices allow.  The message
\* is a string drawn from fixed lists and is left out; random.choice of an
\* empty list (line 471, the board has no stick) is an IndexError.
generate_move ==
    IF inconsistent_settings(settings, _settings)
    THEN { Raised("ValueError") }
    ELSE LET config == _to_config(_slots)
             targets == _reachable_losing_configs(config)
         IN  IF targets # <<>>
             THEN { winning_outcome(_slots, config, targets[t], choice) :
                    t \in DOMAIN targets, choice \in {0, 1} }
             ELSE IF config = <<>> THEN { Raised("IndexError") }
             ELSE { Returned(_build_move(_slots, d[2], config[d[1]], d[3]),
                             None) :
                    d \in random_draws(config, settings.max_take) }

\* ----------------------------------------------- the AI module and one game

InitAI ==
    /\ SolverInit
    /\ NoGame
    /\ largest = [k \in 1..MaxGameTake |-> 0]
    /\ op = "init"
    /\ test_index = 0
    /\ config_from = <<>>
    /\ config_to = <<>>
    /\ max_take = 0
    /\ ret = None

\* ai.set_rules(settings), at most MaxCalls times, before the game is created
\* or between its creation and its first move
SetRulesAI ==
    /\ calls < MaxCalls
    /\ op \in {"init", "set_rules", "Game"}
    /\ \E size \in 1..MaxGameSize, mt \in 1..MaxGameTake : set_rules(size, mt)
    /\ calls' = calls + 1
    /\ op' = "set_rules"
    /\ UNCHANGED <<call_vars, test_index, board_vars, play_vars, board_size_arg,
                   args>>

\* Game(players, settings): a full board of settings.board_size cells; the
\* console (change_settings) only lets sizes and max_take from 1 on through
NewGame ==
    /\ settings.board_size = 0
    /\ \E size \in 1..MaxGameSize, mt \in 1..MaxGameTake :
          /\ settings' = [board_size |-> size, max_take |-> mt]
          /\ _slots' = Board(size)
    /\ move' = None
    /\ raised' = ""
    /\ target' = None
    /\ op' = "Game"
    /\ UNCHANGED <<solver_vars, call_vars, test_index, play_vars, calls, board_size_arg,
                   args>>

\* legal_moves with the moves that take no stick
legal_moves_or_none_taken(slots, mt) ==
    { m \in { <<left, right>> : left \in 0..Len(slots), right \in 0..Len(slots) } :
          m[1] <= m[2] /\ is_legal_in(m, slots, mt) }

\* the moves a player may hand to Game.play: the legal ones of one stick or more
legal_moves(slots, mt) ==
    { m \in { <<left, right>> : left \in 0..Len(slots), right \in 0..Len(slots) } :
          m[1] < m[2] /\ is_legal_in(m, slots, mt) }

\* game.board.play_move(move) with a legal move, as Game.play does; the game
\* is played once the AI was given its settings (choose_players, then new_game)
PlayLegalMove ==
    /\ settings.board_size > 0
    /\ ~inconsistent_settings(settings, _settings)
    /\ \E m \in legal_moves(_slots, settings.max_take) :
          _slots' = play_move(_slots, m)[1]
    /\ move' = None
    /\ raised' = ""
    /\ target' = None
    /\ op' = "play_move"
    /\ UNCHANGED <<solver_vars, call_vars, test_index, settings, play_vars,
                   calls, board_size_arg, args>>

\* ai.generate_move(game); nothing in it assigns to the module's globals or
\* to the game, and the board is only read by _process
GenerateMove ==
    /\ settings.board_size > 0
    /\ \E outcome \in generate_move :
          /\ move' = outcome.move
          /\ raised' = outcome.raised
          /\ target' = outcome.target
    /\ _slots' = IF inconsistent_settings(settings, _settings) THEN _slots
                 ELSE process_leaves(_slots)
    /\ op' = "generate_move"
    /\ UNCHANGED <<solver_vars, call_vars, test_index, settings, play_vars,
                   calls, board_size_arg, args>>

NextAI == SetRulesAI \/ NewGame \/ PlayLegalMove \/ GenerateMove

SpecAI == InitAI /\ [][NextAI]_vars

\* -------------------------------------- a console session: Game.play

\* next_player keeping the same player
next_player_same(player) == player

\* Game.play, line 364: switch player for next turn
next_player(player) == 1 - player

\* the menu: the settings the user has chosen (change_settings lets sizes and
\* max_take from 1 on through), no players and no game yet
InitGame ==
    /\ SolverInit
    /\ largest = [k \in 1..MaxGameTake |-> 0]
    /\ op = "menu"
    /\ test_index = 0
    /\ config_from = <<>>
    /\ config_to = <<>>
    /\ max_take = 0
    /\ ret = None
    /\ settings \in [board_size : 1..MaxGameSize, max_take : 1..MaxGameTake]
    /\ _slots = <<>>
    /\ move = None
    /\ raised = ""
    /\ target = None
    /\ players = <<>>
    /\ current_player = 0
    /\ last_player = -1
    /\ found_target = <<FALSE, FALSE>>
    /\ turns = 0
    /\ calls = 0
    /\ board_size_arg = Unspecified
    /\ args = None

\* choose_players: one turn of its loop; a computer player has the AI load
\* the settings of the menu
ChoosePlayer ==
    /\ op \in {"menu", "choose_players"}
    /\ Len(players) < 2
    /\ \E kind \in {"human", "computer"} :
          /\ players' = Append(players, kind)
          /\ IF kind = "computer"
             THEN set_rules(settings.board_size, settings.max_take)
             ELSE UNCHANGED solver_vars
    /\ op' = "choose_players"
    /\ UNCHANGED <<call_vars, test_index, board_vars, current_player,
                   last_player, found_target, turns, calls, board_size_arg,
                   args>>

\* new_game: Game(players, settings), then the first lines of Game.play
\* (reset, current_player = 0); also the next game of the same players
Play ==
    /\ op \in {"choose_players", "return"}
    /\ Len(players) = 2
    /\ _slots' = reset(Board(settings.board_size))
    /\ current_player' = 0
    /\ last_player' = -1
    /\ found_target' = <<FALSE, FALSE>>
    /\ turns' = 0
    /\ move' = None
    /\ raised' = ""
    /\ target' = None
    /\ op' = "play"
    /\ UNCHANGED <<solver_vars, call_vars, test_index, settings, players,
                   calls, board_size_arg, args>>

\* Game.play, lines 357-359: the board is found empty, the player whose turn
\* it is is returned
ReturnWinner ==
    /\ op \in {"play", "turn"}
    /\ is_empty(_slots)
    /\ ret' = <<current_player>>
    /\ op' = "return"
    /\ UNCHANGED <<solver_vars, test_index, config_from, config_to, max_take,
                   board_vars, play_vars, calls, board_size_arg, args>>

\* Game.play, lines 360-364, the player being a human: human_action returns
\* a move that errors_about_move accepts
HumanTurn ==
    /\ op \in {"play", "turn"}
    /\ ~is_empty(_slots)
    /\ turns < MaxTurns
    /\ At(players, current_player) = "human"
    /\ \E m \in legal_moves(_slots, settings.max_take) :
          /\ move' = m
          /\ _slots' = play_move(_slots, m)[1]
    /\ raised' = ""
    /\ target' = None
    /\ last_player' = current_player
    /\ current_player' = next_player(current_player)
    /\ turns' = turns + 1
    /\ op' = "turn"
    /\ UNCHANGED <<solver_vars, call_vars, test_index, settings, players,
                   found_target, calls, board_size_arg, args>>

\* computer_action: what it does with an outcome of generate_move; it
\* raises when the move is not legal
computer_action(outcome) ==
    IF outcome.raised # "" THEN outcome
    ELSE IF outcome.move = None THEN Raised("AttributeError")
    ELSE IF ~is_legal_in(outcome.move, _slots, settings.max_take)
         THEN Raised("Exception")
    ELSE outcome

\* Game.play, lines 360-364, the player being a computer; an exception ends
\* the game
ComputerTurn ==
    /\ op \in {"play", "turn"}
    /\ ~is_empty(_slots)
    /\ turns < MaxTurns
    /\ At(players, current_player) = "computer"
    /\ \E outcome \in generate_move :
          LET answer == computer_action(outcome)
          IN  /\ move' = answer.move
              /\ raised' = answer.raised
              /\ target' = outcome.target
              /\ found_target' =
                    IF outcome.target # None
                    THEN SetAt(found_target, current_player, TRUE)
                    ELSE found_target
              /\ IF answer.raised # ""
                 THEN /\ op' = "raised"
                      /\ UNCHANGED <<_slots, current_player, last_player, turns>>
                 ELSE /\ _slots' = play_move(_slots, answer.move)[1]
                      /\ last_player' = current_player
                      /\ current_player' = next_player(current_player)
                      /\ turns' = turns + 1
                      /\ op' = "turn"
    /\ UNCHANGED <<solver_vars, call_vars, test_index, settings, players,
                   calls, board_size_arg, args>>

NextGame == ChoosePlayer \/ Play \/ ReturnWinner \/ HumanTurn \/ ComputerTurn

SpecGame == InitGame /\ [][NextGame]_vars

\* ------------------------------------------ Game.play with any two players

\* two players whose ask_move returns any legal move of one stick or more
\* (the interface is responsible for providing legal moves only, line 361):
\* the state of the console once they are chosen, before new_game
InitPlay ==
    /\ SolverInit
    /\ largest = [k \in 1..MaxGameTake |-> 0]
    /\ op = "choose_players"
    /\ test_index = 0
    /\ config_from = <<>>
    /\ config_to = <<>>
    /\ max_take = 0
    /\ ret = None
    /\ settings \in [board_size : 1..MaxGameSize, max_take : 1..MaxGameTake]
    /\ _slots = <<>>
    /\ move = None
    /\ raised = ""
    /\ target = None
    /\ players = <<"human", "human">>
    /\ current_player = 0
    /\ last_player = -1
    /\ found_target = <<FALSE, FALSE>>
    /\ turns = 0
    /\ calls = 0
    /\ board_size_arg = Unspecified
    /\ args = None

NextPlay == Play \/ ReturnWinner \/ HumanTurn

\* Game.play runs on: its loop goes to the next turn or returns, and the
\* player who is asked for a move gives one
SpecPlay ==
    /\ InitPlay
    /\ [][NextPlay]_vars
    /\ WF_vars(ReturnWinner \/ HumanTurn)

\* ------------------------------ boards built from configurations (ai_test.py)

\* to_board, line 18: the room the configuration needs
min_size(config) == Sum(config) + Len(config) - 1

\* to_board, lines 33-34: the groups laid one after the other, a gap after each
RECURSIVE lay_groups(_)
lay_groups(conf) ==
    IF conf = <<>> THEN <<>>
    ELSE [i \in 1..Head(conf) |-> a_stick] \o <<a_gap>> \o lay_groups(Tail(conf))

\* to_board(config, board_size, shuffle), conf being the copy of config, in
\* the order random.shuffle left it: the cells of the board, or the exception
\* (slots.pop() on an empty list is an IndexError)
to_board(conf, size) ==
    LET room == IF size = Unspecified THEN min_size(conf) ELSE size
        laid == lay_groups(conf)
    IN  IF size # Unspecified /\ size < min_size(conf)
        THEN [slots |-> <<>>, raised |-> "ValueError"]
        ELSE IF laid = <<>> THEN [slots |-> <<>>, raised |-> "IndexError"]
        ELSE LET popped == SubSeq(laid, 1, Len(laid) - 1)
             IN  [slots |-> popped \o [i \in 1..(room - Len(popped)) |-> a_gap],
                  raised |-> ""]

\* random.shuffle(conf): the orders it can leave the list in
RECURSIVE shuffles(_)
shuffles(conf) ==
    IF conf = <<>> THEN {<<>>}
    ELSE UNION { { <<conf[i]>> \o rest : rest \in shuffles(DropAt(conf, i)) } :
                 i \in DOMAIN conf }

\* the arguments of to_board: a configuration and a board size, or none
InitBoard ==
    /\ SolverInit
    /\ largest = [k \in 1..MaxTake |-> 0]
    /\ op = "input"
    /\ test_index = 0
    /\ config_from \in ConfigsUpTo(MaxSum)
    /\ config_to = <<>>
    /\ max_take = 0
    /\ ret = None
    /\ settings = [board_size |-> 0, max_take |-> 0]
    /\ _slots = <<>>
    /\ move = None
    /\ raised = ""
    /\ target = None
    /\ players = <<>>
    /\ current_player = 0
    /\ last_player = -1
    /\ found_target = <<FALSE, FALSE>>
    /\ turns = 0
    /\ calls = 0
    /\ board_size_arg \in {Unspecified} \cup 0..MaxBoard
    /\ args = None

\* to_board(config_from, board_size_arg, shuffle=True); config_to is the
\* shuffled copy
CallToBoard ==
    /\ op = "input"
    /\ \E conf \in shuffles(config_from) :
          /\ config_to' = conf
          /\ _slots' = to_board(conf, board_size_arg).slots
          /\ raised' = to_board(conf, board_size_arg).raised
    /\ op' = "to_board"
    /\ UNCHANGED <<solver_vars, test_index, config_from, max_take, ret,
                   settings, move, target, play_vars, calls, board_size_arg,
                   args>>

\* board.to_config(), as in the round trip of ai_test.py (lines 213-220)
CallToConfig ==
    /\ op = "to_board"
    /\ raised = ""
    /\ ret' = to_config(_slots)
    /\ op' = "to_config"
    /\ UNCHANGED <<solver_vars, test_index, config_from, config_to, max_take,
                   board_vars, play_vars, calls, board_size_arg, args>>

\* the moves within a board, the empty ones included
moves_within(slots) ==
    { m \in { <<left, right>> : left \in 0..Len(slots), right \in 0..Len(slots) } :
          m[1] <= m[2] }

\* board.play_move(move) with any move within the board, on the boards of
\* MaxGameSize cells at most
CallPlayMove ==
    /\ op \in {"to_board", "to_config", "play_move"}
    /\ raised = ""
    /\ Len(_slots) <= MaxGameSize
    /\ \E m \in moves_within(_slots) :
          /\ move' = m
          /\ _slots' = play_move(_slots, m)[1]
          /\ ret' = <<play_move(_slots, m)[2]>>
    /\ op' = "play_move"
    /\ UNCHANGED <<solver_vars, test_index, config_from, config_to, max_take,
                   settings, raised, target, play_vars, calls, board_size_arg,
                   args>>

NextBoard == CallToBoard \/ CallToConfig \/ CallPlayMove

SpecBoard == InitBoard /\ [][NextBoard]_vars

\* ------------------------------------------------------------------ claims
\* (generate_move, the board and the game)

\* C11: generate_move raises ValueError and returns no move whenever the
\* game's board_size or max_take differs from the values of the last
\* set_rules call, and whenever set_rules was never called.
C11_StaleSettingsRaise ==
    op = "generate_move" =>
        /\ (settings.board_size # _settings.board_size
                \/ settings.max_take # _settings.max_take)
             => (raised = "ValueError" /\ move = None)
        /\ calls = 0 => (raised = "ValueError" /\ move = None)

\* generate_move was called after a set_rules call that gave the size of the
\* game but another max_take, and raised ValueError
C11_Witness ==
    /\ op = "generate_move"
    /\ calls = 1
    /\ settings.board_size = _settings.board_size
    /\ settings.max_take # _settings.max_take
    /\ raised = "ValueError"
    /\ move = None

\* C12: on a board with at least one stick, with the settings of the last
\* set_rules call, generate_move returns a Move (not None) that is legal: it
\* lies within the board, takes between 1 and max_take sticks, and every cell
\* of [left, right) holds a stick (one run of adjacent sticks: a single
\* group); in the winning and in the random branch, whatever is drawn.
C12_GeneratedMoveLegal ==
    (/\ op = "generate_move"
     /\ settings.board_size = _settings.board_size
     /\ settings.max_take = _settings.max_take
     /\ \E i \in DOMAIN _slots : _slots[i] = a_stick)
    => /\ raised = ""
       /\ move # None
       /\ 0 <= move[1]
       /\ move[1] < move[2]
       /\ move[2] <= Len(_slots)
       /\ move[2] - move[1] <= settings.max_take
       /\ \A i \in move[1]..(move[2] - 1) : At(_slots, i) = a_stick

\* the random branch returned a move that takes two sticks in the middle of a
\* group: the cells on both sides of it hold sticks
C12_Witness ==
    /\ op = "generate_move"
    /\ raised = ""
    /\ target = None
    /\ move # None
    /\ move[2] - move[1] = 2
    /\ move[1] >= 1
    /\ move[2] < Len(_slots)
    /\ At(_slots, move[1] - 1) = a_stick
    /\ At(_slots, move[2]) = a_stick
    /\ \A i \in move[1]..(move[2] - 1) : At(_slots, i) = a_stick

\* C13: whenever a losing configuration of the list can be reached from the
\* board's configuration, generate_move returns a Move which, once played on
\* the board, leaves a board whose configuration is exactly the target it
\* drew, and the target is a member of the losing list.
C13_MoveReachesTarget ==
    (/\ op = "generate_move"
     /\ settings.board_size = _settings.board_size
     /\ settings.max_take = _settings.max_take
     /\ \E i \in DOMAIN _losing_configs :
           _losing_configs[i] \in LegalResults(_to_config(_slots),
                                               settings.max_take))
    => /\ raised = ""
       /\ move # None
       /\ target # None
       /\ Contains(_losing_configs, target)
       /\ _to_config(play_move(_slots, move)[1]) = target

\* from a board whose configuration is [3], the move takes 2 sticks and
\* leaves [1]
C13_Witness ==
    /\ op = "generate_move"
    /\ raised = ""
    /\ _to_config(_slots) = <<3>>
    /\ move # None
    /\ move[2] - move[1] = 2
    /\ target = <<1>>
    /\ _to_config(play_move(_slots, move)[1]) = <<1>>

\* C15: generate_move changes neither the cells of the board nor the settings
\* of the game, nor the configuration table, the losing list, the backup and
\* the active settings of the solver, in the winning and in the losing branch.
C15_GenerateMoveNoSideEffect ==
    [][op' = "generate_move"
         => UNCHANGED <<_slots, settings, _configs, _losing_configs,
                        _losing_backup, _settings>>]_vars

\* generate_move went through its losing branch on the board ||-|| and
\* returned a move, the board still being ||-||
C15_Witness ==
    /\ op = "generate_move"
    /\ raised = ""
    /\ target = None
    /\ move # None
    /\ _slots = <<1, 1, 0, 1, 1>>
    /\ Contains(_losing_configs, <<2, 2>>)

\* C19: with the settings of the last set_rules call, generate_move on a
\* board that holds no stick completes without raising an exception.
C19_EmptyBoardNoError ==
    (/\ op = "generate_move"
     /\ settings.board_size = _settings.board_size
     /\ settings.max_take = _settings.max_take
     /\ \A i \in DOMAIN _slots : _slots[i] = a_gap)
    => raised = ""

\* C14: the AI plays perfectly: in a game whose settings the AI was given by
\* set_rules, once generate_move has found a reachable losing configuration
\* at one of a computer player's turns, that player never takes the last
\* stick, whatever legal moves the opponent plays.
C14_AIPlaysPerfectly ==
    \A player \in {0, 1} :
        (At(players \o <<"", "">>, player) = "computer"
            /\ At(found_target, player))
        => ~(is_empty(_slots) /\ last_player = player)

\* C18: Game.play starts from a full board with players[0] to move, the two
\* players move in strict alternation, and the player returned as the winner
\* is the one whose turn it is when the board is found empty: the player who
\* did not take the last stick.
C18_PlayReturnsOtherPlayer ==
    /\ op = "play" =>
          /\ \A i \in DOMAIN _slots : _slots[i] = a_stick
          /\ Len(_slots) = settings.board_size
          /\ current_player = 0
          /\ last_player = -1
    /\ op = "turn" =>
          /\ last_player \in {0, 1}
          /\ current_player = 1 - last_player
    /\ op = "return" =>
          /\ \A i \in DOMAIN _slots : _slots[i] = a_gap
          /\ last_player \in {0, 1}
          /\ ret = <<current_player>>
          /\ ret = <<1 - last_player>>

\* a game of three moves ended: players[0] took the last stick and players[1]
\* was returned as the winner
C18_Witness ==
    /\ op = "return"
    /\ settings.board_size = 3
    /\ last_player = 0
    /\ ret = <<1>>
    /\ move = <<1, 2>>
    /\ is_empty(_slots)

\* C16: round trip: for every non-empty configuration, every order of its
\* groups and every board_size of sum + number of groups - 1 or more (or none
\* given), to_board builds a board of that size whose to_config is the
\* configuration; with a smaller board_size, to_board raises ValueError.
C16_ToBoardRoundTrip ==
    config_from # <<>> =>
        /\ (op = "to_board" /\ board_size_arg # Unspecified
                /\ board_size_arg < Sum(config_from) + Len(config_from) - 1)
             => raised = "ValueError"
        /\ (op = "to_board"
                /\ (board_size_arg = Unspecified
                      \/ board_size_arg >= Sum(config_from) + Len(config_from) - 1))
             => /\ raised = ""
                /\ Len(_slots) = (IF board_size_arg = Unspecified
                                  THEN Sum(config_from) + Len(config_from) - 1
                                  ELSE board_size_arg)
                /\ to_config(_slots) = config_from
        /\ op = "to_config" => ret = config_from

\* [3, 2, 1] laid as 1, 3, 2 on a board of 10 cells, and read back
C16_Witness ==
    /\ op = "to_config"
    /\ config_from = <<3, 2, 1>>
    /\ config_to = <<1, 3, 2>>
    /\ board_size_arg = 10
    /\ _slots = <<1, 0, 1, 1, 1, 0, 1, 1, 0, 0>>
    /\ ret = <<3, 2, 1>>

\* C17: Board.play_move(move), the move lying within the board, returns True
\* if and only if every cell of [left, right) held a stick before the call;
\* after the call every cell of the range is a gap and every other cell is
\* what it was, whatever is returned.
C17_PlayMoveFrame ==
    [][op' = "play_move" =>
          /\ ret' = <<\A i \in move'[1]..(move'[2] - 1) : At(_slots, i) = a_stick>>
          /\ Len(_slots') = Len(_slots)
          /\ \A i \in 0..(Len(_slots) - 1) :
                At(_slots', i) = IF move'[1] <= i /\ i < move'[2] THEN a_gap
                                 ELSE At(_slots, i)]_vars

\* play_move returned False for a move of three cells, and a stick is left
\* outside of its range
C17_Witness ==
    /\ op = "play_move"
    /\ ret = <<FALSE>>
    /\ move # None
    /\ move[2] - move[1] = 3
    /\ \A i \in move[1]..(move[2] - 1) : At(_slots, i) = a_gap
    /\ \E i \in 0..(Len(_slots) - 1) :
          (i < move[1] \/ i >= move[2]) /\ At(_slots, i) = a_stick

\* C20: incremental build equals build from scratch: after any sequence of
\* set_rules calls (sizes growing and shrinking, several max_take values
\* interleaved), the losing list active after set_rules(N, K) is, in content
\* and order, the list a fresh process has after the single call
\* set_rules(M, K), M being the largest board size passed so far with K.
C20_IncrementalEqualsFresh ==
    op = "set_rules" =>
        _losing_configs =
            fresh_losing_configs(largest[_settings.max_take], _settings.max_take)

\* set_rules(3, 2) was called after larger boards were loaded for max_take 2
\* (up to 6) and for max_take 1 (up to 5): the active list is the one of 6
C20_Witness ==
    /\ op = "set_rules"
    /\ _settings = [board_size |-> 3, max_take |-> 2]
    /\ known_size = 6
    /\ largest = <<5, 6>>
    /\ Contains(_losing_configs, <<5, 1>>)
    /\ Len(_losing_configs) = Len(fresh_losing_configs(6, 2))

\* ------------------------------------- the order of evaluation within one n

\* the list l, last element first
Reverse(l) == [i \in 1..Len(l) |-> l[Len(l) + 1 - i]]

\* the sequences that hold every element of the set s once
RECURSIVE Orders(_)
Orders(s) ==
    IF s = {} THEN {<<>>}
    ELSE UNION { { <<k>> \o rest : rest \in Orders(s \ {k}) } : k \in s }

\* lines 289-295 for one n, the loop over k going through `order` instead of
\* range(1, n + 1), and each list _configs[n][k] taken last element first
\* when `backward`
RECURSIVE build_losing_in_order(_, _, _, _, _, _)
build_losing_in_order(table, n, order, backward, losing, mt) ==
    IF order = <<>> THEN losing
    ELSE LET configs == At(At(table, n), Head(order))
             listed == IF backward THEN Reverse(configs) ELSE configs
             next == build_losing_list(listed, 1, losing, mt)
         IN  Strict(next, build_losing_in_order(table, n, Tail(order), backward,
                                                next, mt))

\* lines 283-295 for the last n: the list is built in the order of the code
\* up to n - 1, and the configurations of n sticks are evaluated in `order`
build_losing_last_in_order(n, order, backward, mt) ==
    LET table == _build_configs(<< <<>> >>, n, 1)
        losing == _build_losing_configs(table, <<>>, n - 1, mt, 1)
    IN  IF odd_shortcut(n) THEN Append(losing, Ones(n))
        ELSE build_losing_in_order(table, n, order, backward, losing, mt)

\* the elements of the list l that have n sticks
of_sticks(l, n) == { l[i] : i \in { j \in DOMAIN l : Sum(l[j]) = n } }

\* test_index is n, config_to the order of the group counts k (the loop over
\* k is not run when n is odd), config_from tells whether each list
\* _configs[n][k] is taken backward
InitOrder ==
    /\ SolverInit
    /\ NoGame
    /\ largest = [k \in 1..MaxTake |-> 0]
    /\ op = "input"
    /\ test_index \in 1..MaxSize
    /\ config_to \in (IF odd_shortcut(test_index) THEN {<<>>}
                      ELSE Orders(1..test_index))
    /\ config_from \in {<<0>>, <<1>>}
    /\ max_take \in 1..MaxTake
    /\ ret = None

\* the list is built by set_rules, and once more in the order of config_to
BuildInOrder ==
    /\ op = "input"
    /\ set_rules(test_index, max_take)
    /\ ret' = build_losing_last_in_order(test_index, config_to,
                                          config_from = <<1>>, max_take)
    /\ op' = "in_order"
    /\ UNCHANGED <<test_index, config_from, config_to, max_take, game_vars>>

NextOrder == BuildInOrder

SpecOrder == InitOrder /\ [][NextOrder]_vars

\* C21: within one stick count n, the set of n-stick configurations
\* classified as losing does not depend on the order in which the group
\* counts k and the configurations of _configs[n][k] are evaluated, because
\* no configuration of n sticks is reachable by a move from another
\* configuration of n sticks.
C21_OrderWithinNIrrelevant ==
    op = "in_order" =>
        /\ of_sticks(ret, test_index) = of_sticks(_losing_configs, test_index)
        /\ \A m \in 0..(test_index - 1) :
              of_sticks(ret, m) = of_sticks(_losing_configs, m)
        /\ \A c1 \in ConfigsOf(test_index), c2 \in ConfigsOf(test_index) :
              ~_move_exists(c1, c2, max_take)

\* the configurations of 6 sticks were evaluated from k = 6 down to k = 1,
\* each list backward: the list differs from the one of set_rules, and holds
\* the same configurations
C21_Witness ==
    /\ op = "in_order"
    /\ test_index = 6
    /\ max_take = 2
    /\ config_to = <<6, 5, 4, 3, 2, 1>>
    /\ config_from = <<1>>
    /\ ret # _losing_configs
    /\ Contains(ret, <<5, 1>>)
    /\ Contains(ret, <<2, 2, 1, 1>>)
    /\ Len(ret) = Len(_losing_configs)

\* ------------------------------------------------ the board functions alone

\* the boards of n cells, a stick or a gap in each
Cells(n) == [1..n -> {a_gap, a_stick}]

\* the sticks of the Python indices s, ..., s + size - 1 are a group: each
\* cell holds a stick, and the group is ended by a gap or by an edge of the
\* board on both sides
IsGroup(slots, s, size) ==
    /\ size >= 1
    /\ 0 <= s
    /\ s + size <= Len(slots)
    /\ \A i \in s..(s + size - 1) : At(slots, i) = a_stick
    /\ s = 0 \/ At(slots, s - 1) = a_gap
    /\ s + size = Len(slots) \/ At(slots, s + size) = a_gap

\* Board.list_moves, lines 200-204: the lists the loop can leave in
\* fitting_moves; the order in which a set of two starts is gone through is
\* not specified
RECURSIVE fitting_moves(_, _, _, _)
fitting_moves(groups, take, group_size, offset) ==
    IF groups = <<>> THEN {<<>>}
    ELSE LET i_start == Head(groups)[1]
             size == Head(groups)[2]
             rest == fitting_moves(Tail(groups), take, group_size, offset)
             take_starts == {i_start + offset, i_start + size - offset - take}
         IN  IF size # group_size THEN rest
             ELSE UNION { { [i \in DOMAIN o |-> Move(o[i], o[i] + take)] \o r :
                            r \in rest } :
                          o \in Orders(take_starts) }

\* Board.list_moves(take, group_size, offset): the values it can return, None
\* or <<the list>>
list_moves(slots, take, group_size, offset) ==
    IF take + offset > group_size THEN {None}
    ELSE { <<fitting>> :
           fitting \in fitting_moves(to_groups(slots), take, group_size, offset) }

\* a board of MaxCells cells at most, in a game of that size
InitCells ==
    /\ SolverInit
    /\ largest = [k \in 1..MaxTake |-> 0]
    /\ op = "input"
    /\ test_index = 0
    /\ config_from = <<>>
    /\ config_to = <<>>
    /\ max_take = 0
    /\ ret = None
    /\ _slots \in UNION { Cells(n) : n \in 1..MaxCells }
    /\ \E mt \in 1..MaxTake :
          settings = [board_size |-> Len(_slots), max_take |-> mt]
    /\ move = None
    /\ raised = ""
    /\ target = None
    /\ players = <<>>
    /\ current_player = 0
    /\ last_player = -1
    /\ found_target = <<FALSE, FALSE>>
    /\ turns = 0
    /\ calls = 0
    /\ board_size_arg = Unspecified
    /\ args = None

\* _build_move(board, take, group_size, offset)
CallBuildMove ==
    /\ op = "input"
    /\ \E take \in 1..MaxCells, group_size \in 1..MaxCells, offset \in 0..MaxCells :
          /\ args' = <<take, group_size, offset>>
          /\ move' = _build_move(_slots, take, group_size, offset)
    /\ op' = "_build_move"
    /\ UNCHANGED <<solver_vars, call_vars, test_index, settings, _slots, raised,
                   target, play_vars, calls, board_size_arg>>

\* board.list_moves(take, group_size, offset)
CallListMoves ==
    /\ op = "input"
    /\ \E take \in 1..MaxCells, group_size \in 1..MaxCells, offset \in 0..MaxCells :
          /\ args' = <<take, group_size, offset>>
          /\ ret' \in list_moves(_slots, take, group_size, offset)
    /\ op' = "list_moves"
    /\ UNCHANGED <<solver_vars, config_from, config_to, max_take, test_index,
                   board_vars, play_vars, calls, board_size_arg>>

\* board.to_groups(), board.to_config(), and _to_groups(board),
\* _to_config(board) of ai.py
CallProcess ==
    /\ op = "input"
    /\ ret' = <<to_groups(_slots), to_config(_slots),
                _to_groups(_slots), _to_config(_slots)>>
    /\ _slots' = process_leaves(_slots)
    /\ op' = "_process"
    /\ UNCHANGED <<solver_vars, config_from, config_to, max_take, test_index,
                   settings, move, raised, target, play_vars, calls,
                   board_size_arg, args>>

\* move.strip_on(board), with any move within the board
CallStripOn ==
    /\ op = "input"
    /\ \E m \in moves_within(_slots) :
          /\ move' = m
          /\ ret' = strip_on(m, _slots)
    /\ op' = "strip_on"
    /\ UNCHANGED <<solver_vars, config_from, config_to, max_take, test_index,
                   settings, _slots, raised, target, play_vars, calls,
                   board_size_arg, args>>

\* errors_about_move(move, game): the pair <<returned value, what was
\* printed>>; "" when nothing was printed, else the message, which is named
\* by its first words
errors_about_move(m, slots, mt) ==
    LET sticks_taken == Cardinality({ i \in m[1]..(m[2] - 1) : At(slots, i) = a_stick })
    IN  IF is_legal_in(m, slots, mt) THEN <<FALSE, "">>
        ELSE IF is_out_of_bounds_on(m, slots)
             THEN <<TRUE, "This move seems out of bounds">>
        ELSE IF contains_gap_on(m, slots)
             THEN IF sticks_taken = 0
                  THEN <<TRUE, "But... there are no sticks there">>
                  ELSE IF sticks_taken <= mt
                  THEN IF strip_on(m, slots) = m
                       THEN <<TRUE, "The sticks you take need to be next to each other">>
                       ELSE IF ~contains_gap_on(strip_on(m, slots), slots)
                            THEN <<TRUE, "Did you mean">>
                            ELSE <<TRUE, "">>
                  ELSE <<TRUE, "Impossible move">>
        ELSE IF takes_too_many_for(m, mt)
             THEN <<TRUE, "Please take max_take sticks at most">>
        ELSE <<TRUE, "">>

\* human_action, lines 305-311: the move is built from two coordinates, which
\* may lie beyond the board, and handed to errors_about_move
CallErrorsAboutMove ==
    /\ op = "input"
    /\ \E end1 \in 0..Len(_slots), end2 \in 0..Len(_slots) :
          LET m == Move(IF end1 < end2 THEN end1 ELSE end2,
                        (IF end1 < end2 THEN end2 ELSE end1) + 1)
          IN  /\ move' = m
              /\ ret' = errors_about_move(m, _slots, settings.max_take)
    /\ op' = "errors_about_move"
    /\ UNCHANGED <<solver_vars, config_from, config_to, max_take, test_index,
                   settings, _slots, raised, target, play_vars, calls,
                   board_size_arg, args>>

\* Move(index_1, index_2).is_legal_in(game), the indices being any two
\* numbers from -1 to len(board) + 1
CallIsLegalIn ==
    /\ op = "input"
    /\ \E index_1 \in -1..(Len(_slots) + 1), index_2 \in -1..(Len(_slots) + 1) :
          /\ move' = Move(index_1, index_2)
          /\ ret' = <<is_legal_in(Move(index_1, index_2), _slots, settings.max_take)>>
    /\ op' = "is_legal_in"
    /\ UNCHANGED <<solver_vars, config_from, config_to, max_take, test_index,
                   settings, _slots, raised, target, play_vars, calls,
                   board_size_arg, args>>

\* board.play_move(move) with a move that is_legal_in accepted
CallPlayLegalMove ==
    /\ op = "is_legal_in"
    /\ ret = <<TRUE>>
    /\ _slots' = play_move(_slots, move)[1]
    /\ ret' = <<play_move(_slots, move)[2]>>
    /\ op' = "play_move"
    /\ UNCHANGED <<solver_vars, config_from, config_to, max_take, test_index,
                   settings, move, raised, target, play_vars, calls,
                   board_size_arg, args>>

NextCells ==
    \/ CallBuildMove \/ CallListMoves \/ CallProcess \/ CallStripOn
    \/ CallErrorsAboutMove \/ CallIsLegalIn \/ CallPlayLegalMove

SpecCells == InitCells /\ [][NextCells]_vars

\* C22: _build_move(board, take, group_size, offset) returns None if
\* take + offset > group_size or if the board has no group of exactly
\* group_size sticks; otherwise it returns Move(s + offset, s + offset + take),
\* s being the start of the leftmost group of group_size sticks: the move
\* covers only sticks of that group and leaves offset sticks on its left.
C22_BuildMoveFirstGroup ==
    op = "_build_move" =>
        LET take == args[1]
            group_size == args[2]
            offset == args[3]
            starts == { s \in 0..Len(_slots) : IsGroup(_slots, s, group_size) }
        IN  IF take + offset > group_size \/ starts = {} THEN move = None
            ELSE LET s == CHOOSE x \in starts : \A y \in starts : x <= y
                 IN  /\ move = <<s + offset, s + offset + take>>
                     /\ s <= move[1]
                     /\ move[2] <= s + group_size
                     /\ \A i \in move[1]..(move[2] - 1) : At(_slots, i) = a_stick
                     /\ \A i \in s..(move[1] - 1) : At(_slots, i) = a_stick
                     /\ move[1] - s = offset

\* on the board ||-||, one stick is taken from a group of 2, one stick away
\* from its edge: the move is in the first group
C22_Witness ==
    /\ op = "_build_move"
    /\ _slots = <<1, 1, 0, 1, 1>>
    /\ args = <<1, 2, 1>>
    /\ move = <<1, 2>>

\* C23: Board.list_moves(take, group_size, offset) always returns a list,
\* which holds exactly the Moves that remove take sticks from a group of
\* group_size sticks leaving offset sticks at one edge of that group: for
\* each such group both symmetric placements, none of them twice, and nothing
\* else.
C23_ListMovesExactList ==
    op = "list_moves" =>
        LET take == args[1]
            group_size == args[2]
            offset == args[3]
            starts == { s \in 0..Len(_slots) : IsGroup(_slots, s, group_size) }
            placements ==
                { <<i, i + take>> :
                  i \in { j \in 0..Len(_slots) :
                          \E s \in starts :
                             /\ s <= j
                             /\ j + take <= s + group_size
                             /\ (j - s = offset
                                   \/ s + group_size - (j + take) = offset) } }
        IN  /\ ret # None
            /\ { ret[1][i] : i \in DOMAIN ret[1] } = placements
            /\ Len(ret[1]) = Cardinality(placements)

\* how many elements of the list l are equal to v
CountOf(l, v) == Cardinality({ i \in DOMAIN l : l[i] = v })

\* groups holds one (start, size) pair per maximal run of adjacent sticks of
\* the board, in ascending start order, and config holds the sizes of those
\* runs sorted in non-increasing order
DescribesBoard(slots, groups, config) ==
    /\ { groups[i] : i \in DOMAIN groups }
         = { <<s, size>> \in (0..Len(slots)) \X (1..Len(slots)) :
                IsGroup(slots, s, size) }
    /\ \A i \in DOMAIN groups : i < Len(groups) =>
          groups[i][1] + groups[i][2] < groups[i + 1][1]
    /\ \A c \in 0..(Len(slots) - 1) :
          At(slots, c) = a_stick =>
             \E i \in DOMAIN groups :
                groups[i][1] <= c /\ c < groups[i][1] + groups[i][2]
    /\ Len(config) = Len(groups)
    /\ \A size \in 1..Len(slots) :
          CountOf(config, size) = CountOf([i \in DOMAIN groups |-> groups[i][2]], size)
    /\ \A i \in DOMAIN config : i < Len(config) => config[i] >= config[i + 1]
    /\ Sum(config) = CountOf(slots, a_stick)
    /\ is_empty(slots) => (groups = <<>> /\ config = <<>>)

\* C25: for every board, to_groups returns one (start_index, size) pair per
\* maximal run of adjacent sticks, in ascending start order, the runs being
\* disjoint and covering every stick, and to_config returns the sizes of the
\* runs in non-increasing order, their sum being the number of sticks; a
\* board without sticks gives an empty list and an empty configuration. This
\* holds for the methods of Board and for the functions of ai.py.
C25_GroupsAndConfigOfBoard ==
    op = "_process" =>
        /\ DescribesBoard(_slots, ret[1], ret[2])
        /\ DescribesBoard(_slots, ret[3], ret[4])

\* the board |-||| has the groups (0, 1) and (2, 3), and the configuration
\* [3, 1]
C25_Witness ==
    /\ op = "_process"
    /\ _slots = <<1, 0, 1, 1, 1>>
    /\ ret[1] = << <<0, 1>>, <<2, 3>> >>
    /\ ret[2] = <<3, 1>>
    /\ ret[3] = ret[1]
    /\ ret[4] = ret[2]

\* C27: for a move within the board's bounds, Move.strip_on(board) returns
\* None if and only if the slice [left, right) holds no stick; otherwise it
\* returns the Move [l, r) with left <= l < r <= right, l being the index of
\* the first stick of the slice and r - 1 the index of its last stick; the
\* board is not modified.
C27_StripOnFirstToLastStick ==
    [][op' = "strip_on" =>
          LET sticks == { i \in move'[1]..(move'[2] - 1) : At(_slots, i) = a_stick }
          IN  /\ _slots' = _slots
              /\ (ret' = None) <=> (sticks = {})
              /\ sticks # {} =>
                    /\ Len(ret') = 2
                    /\ move'[1] <= ret'[1]
                    /\ ret'[1] < ret'[2]
                    /\ ret'[2] <= move'[2]
                    /\ ret'[1] \in sticks
                    /\ ret'[2] - 1 \in sticks
                    /\ \A i \in sticks : ret'[1] <= i /\ i <= ret'[2] - 1]_vars

\* on the board -|-|-, the move [0:5] is stripped to [1:4], which still
\* holds a gap
C27_Witness ==
    /\ op = "strip_on"
    /\ _slots = <<0, 1, 0, 1, 0>>
    /\ move = <<0, 5>>
    /\ ret = <<1, 4>>

\* C26: errors_about_move(move, game) returns False and prints nothing when
\* the move is legal in the game, and for every illegal move (out of bounds,
\* containing a gap, or taking more than max_take sticks) it prints an error
\* message and returns True.
C26_IllegalMoveGetsMessage ==
    op = "errors_about_move" =>
        IF is_legal_in(move, _slots, settings.max_take)
        THEN ret = <<FALSE, "">>
        ELSE ret[1] = TRUE /\ ret[2] # ""

\* C30: every Move that is_legal_in accepts makes progress when played:
\* play_move returns True and the number of sticks on the board decreases by
\* len(move), with 1 <= len(move) <= max_take.
C30_LegalMoveMakesProgress ==
    [][(op = "is_legal_in" /\ op' = "play_move") =>
          /\ ret' = <<TRUE>>
          /\ CountOf(_slots', a_stick) = CountOf(_slots, a_stick) - (move[2] - move[1])
          /\ 1 <= move[2] - move[1]
          /\ move[2] - move[1] <= settings.max_take]_vars

\* ------------------------------- the cheat command (sticky_nim_console.py)

\* _coordinates: a-z, A-Z, 0-9, each character as its code point
_coordinates ==
    [i \in 1..62 |-> IF i <= 26 THEN 96 + i ELSE IF i <= 52 THEN 38 + i ELSE i - 5]

\* to_action(move): the string a human types to play the move, as the list
\* of its characters
to_action(m) ==
    <<At(_coordinates, m[1])>>
    \o (IF m[2] - m[1] > 1 THEN <<At(_coordinates, m[2] - 1)>> ELSE <<>>)

\* a < b for two strings
RECURSIVE str_less(_, _)
str_less(a, b) ==
    IF b = <<>> THEN FALSE
    ELSE IF a = <<>> THEN TRUE
    ELSE IF Head(a) # Head(b) THEN Head(a) < Head(b)
    ELSE str_less(Tail(a), Tail(b))

\* the string x put at its place in the sorted list of strings
RECURSIVE insert_string(_, _)
insert_string(sorted, x) ==
    IF sorted = <<>> THEN <<x>>
    ELSE IF str_less(x, Head(sorted)) THEN <<x>> \o sorted
    ELSE <<Head(sorted)>> \o insert_string(Tail(sorted), x)

\* sorted(l) for a list of strings
RECURSIVE sorted_strings(_)
sorted_strings(l) ==
    IF l = <<>> THEN <<>>
    ELSE insert_string(sorted_strings(Tail(l)), Head(l))

\* _cheat printed `message`, or the actions
Said(message) == [raised |-> "", message |-> message, actions |-> <<>>]
Listed(actions) == [raised |-> "", message |-> "", actions |-> actions]
CheatRaised(exception) == [raised |-> exception, message |-> "", actions |-> <<>>]

\* _cheat, lines 222-225: the lists the loop can leave in `moves` (the random
\* choice of _describe_move_between, the order of list_moves), or the
\* exception that ends it: unpacking None and moves.extend(None) are
\* TypeErrors
RECURSIVE cheat_moves(_, _, _)
cheat_moves(slots, config, solutions) ==
    IF solutions = <<>> THEN {[raised |-> "", moves |-> <<>>]}
    ELSE LET described == { _describe_move_between(config, Head(solutions), choice) :
                            choice \in {0, 1} }
             rest == cheat_moves(slots, config, Tail(solutions))
         IN  UNION {
               IF d = None THEN {[raised |-> "TypeError", moves |-> <<>>]}
               ELSE UNION {
                      IF l = None THEN {[raised |-> "TypeError", moves |-> <<>>]}
                      ELSE { IF r.raised # "" THEN r
                             ELSE [raised |-> "", moves |-> l[1] \o r.moves] :
                             r \in rest } :
                      l \in list_moves(slots, d[1], d[2], d[3]) } :
               d \in described }

\* _cheat(game): what it can print.  The messages drawn by random.choice are
\* named by the first of their list; config[0] of an empty configuration is
\* an IndexError.
_cheat(slots, game_settings) ==
    LET config == to_config(slots)
    IN  IF config = <<>> THEN {CheatRaised("IndexError")}
        ELSE IF config[1] = 1
        THEN IF Len(config) = 1 THEN {Said("Really?")}
             ELSE {Said("Well, it's not like you have a choice there do you?")}
        ELSE IF loading_needed(game_settings.board_size, game_settings.max_take)
        THEN {Said("I don't know!")}
        ELSE LET solutions == _reachable_losing_configs(config)
             IN  IF solutions = <<>> THEN {Said("Just do whatever")}
                 ELSE { IF o.raised # "" THEN CheatRaised(o.raised)
                        ELSE Listed(sorted_strings(
                                 [i \in DOMAIN o.moves |-> to_action(o.moves[i])])) :
                        o \in cheat_moves(slots, config, solutions) }

InitCheat ==
    /\ SolverInit
    /\ NoGame
    /\ largest = [k \in 1..MaxTake |-> 0]
    /\ op = "init"
    /\ test_index = 0
    /\ config_from = <<>>
    /\ config_to = <<>>
    /\ max_take = 0
    /\ ret = None

\* ai.set_rules(settings), as choose_players calls it for the computer players
\* of the games played before
SetRulesCheat ==
    /\ calls < MaxCheatCalls
    /\ op \in {"init", "set_rules"}
    /\ \E size \in 1..MaxCheatSize, mt \in 1..MaxTake : set_rules(size, mt)
    /\ calls' = calls + 1
    /\ op' = "set_rules"
    /\ UNCHANGED <<call_vars, test_index, board_vars, play_vars, board_size_arg,
                   args>>

\* a game between two humans is created: choose_players does not call
\* set_rules
NewHumanGame ==
    /\ op \in {"init", "set_rules"}
    /\ \E size \in 1..MaxCheatSize, mt \in 1..MaxTake :
          /\ settings' = [board_size |-> size, max_take |-> mt]
          /\ _slots' = Board(size)
    /\ players' = <<"human", "human">>
    /\ op' = "Game"
    /\ UNCHANGED <<solver_vars, call_vars, test_index, move, raised, target,
                   current_player, last_player, found_target, turns, calls,
                   board_size_arg, args>>

\* a human plays a legal move
HumanMove ==
    /\ op \in {"Game", "play_move", "_cheat"}
    /\ \E m \in legal_moves(_slots, settings.max_take) :
          _slots' = play_move(_slots, m)[1]
    /\ ret' = None
    /\ raised' = ""
    /\ op' = "play_move"
    /\ UNCHANGED <<solver_vars, config_from, config_to, max_take, test_index,
                   settings, move, target, play_vars, calls, board_size_arg,
                   args>>

\* a human types "cheat": ret is what is printed, <<message, actions>>
Cheat ==
    /\ op \in {"Game", "play_move"}
    /\ \E o \in _cheat(_slots, settings) :
          /\ ret' = <<o.message, o.actions>>
          /\ raised' = o.raised
    /\ op' = "_cheat"
    /\ UNCHANGED <<solver_vars, config_from, config_to, max_take, test_index,
                   settings, _slots, move, target, play_vars, calls,
                   board_size_arg, args>>

NextCheat == SetRulesCheat \/ NewHumanGame \/ HumanMove \/ Cheat

SpecCheat == InitCheat /\ [][NextCheat]_vars

\* the actions of the moves that win the game of the board: the legal moves
\* that leave a configuration of the losing list of the game's max_take
winning_actions ==
    { to_action(m) :
      m \in { w \in legal_moves(_slots, settings.max_take) :
              Contains(_losing_backup[settings.max_take][2],
                       to_config(play_move(_slots, w)[1])) } }

\* C24: when the solver is loaded for the game's settings (loading_needed is
\* False) and the board holds a group of two sticks or more, the moves the
\* cheat command prints are exactly the winning moves: a legal move is
\* listed if and only if playing it leaves a board whose configuration is in
\* the losing list.
C24_CheatListsWinningMoves ==
    (/\ op = "_cheat"
     /\ ~loading_needed(settings.board_size, settings.max_take)
     /\ \E g \in DOMAIN to_config(_slots) : to_config(_slots)[g] >= 2)
    => /\ raised = ""
       /\ { ret[2][i] : i \in DOMAIN ret[2] } = winning_actions

\* ---------------------------------------------------------------- claims
\* (the losing list, Game.play)

\* C28: in every state reached by set_rules calls, no two configurations of
\* the losing list are one move apart: _move_exists(L1, L2, K) is false for
\* all L1, L2 of the active list, K being the active max_take, and for the
\* list backed up for each max_take (the configurations [1] * n that the
\* odd-n shortcut adds without any check included).
C28_NoMoveBetweenLosingConfigs ==
    /\ \A i \in DOMAIN _losing_configs, j \in DOMAIN _losing_configs :
          ~_move_exists(_losing_configs[i], _losing_configs[j],
                        _settings.max_take)
    /\ \A k \in DOMAIN _losing_backup :
          \A i \in DOMAIN _losing_backup[k][2], j \in DOMAIN _losing_backup[k][2] :
             ~_move_exists(_losing_backup[k][2][i], _losing_backup[k][2][j], k)

\* the list of max_take 2 up to 6 sticks is active: it holds configurations
\* added by the shortcut and configurations added by the search
C28_Witness ==
    /\ op = "set_rules"
    /\ _settings = [board_size |-> 6, max_take |-> 2]
    /\ Contains(_losing_configs, <<1, 1, 1, 1, 1>>)
    /\ Contains(_losing_configs, <<5, 1>>)
    /\ Contains(_losing_configs, <<2, 2, 1, 1>>)
    /\ Len(_losing_configs) >= 10
    /\ 1 \in DOMAIN _losing_backup

\* C29: Game.play terminates: every move a player returns being legal and
\* taking at least one stick, the number of sticks on the board strictly
\* decreases at each turn, no player is asked for a move on an empty board,
\* at most board_size moves are played, and play returns a winner.
C29_PlayTerminates ==
    /\ [][op' = "turn" =>
             /\ ~is_empty(_slots)
             /\ CountOf(_slots', a_stick) < CountOf(_slots, a_stick)
             /\ turns' = turns + 1]_vars
    /\ [](op \in {"play", "turn", "return"} =>
             /\ turns <= settings.board_size
             /\ turns + CountOf(_slots, a_stick) <= settings.board_size)
    /\ (op = "play") ~> (op = "return")

\* a game of 5 sticks was played in 5 moves of one stick, the largest number
\* of moves, and play returned
C29_Witness ==
    /\ op = "return"
    /\ settings.board_size = 5
    /\ turns = 5
    /\ is_empty(_slots)
    /\ last_player = 0

====
